---- MODULE Spec2Model ----
(***************************************************************************)
(* search_github_repos of githubrepos.py: the per-keyword pagination loop  *)
(* with HTTP 403 rate-limit waits, exponential-backoff retries on request  *)
(* failures and the popularity-threshold filter.                           *)
(*                                                                         *)
(* The function is single-threaded, so one iteration of its while loop     *)
(* (request, response handling, sleep) is one step of the model.  URLs are *)
(* page numbers of the keyword's result chain; times are whole seconds.    *)
(* The input keywords are pairwise distinct strings, modelled as numbers.  *)
(***************************************************************************)
EXTENDS Integers, Sequences, FiniteSets

\* ---------------------------------------------------------------- bounds
NumKeywords == 2      \* length of the keywords argument
MaxPages == 2         \* longest chain of result pages of a keyword
PerPage == 2          \* items on a result page
Max403 == 2           \* 403 responses the server gives per keyword

\* ------------------------------------------------------ program constants
MAX_RETRIES == 5
BASE_BACKOFF_TIME == 5
GITHUB_API_BASE_URL == 1     \* the first page of a keyword's results
NoUrl == 0                   \* None: no next page
MinWait == 30                \* floor of the rate-limit wait
DefaultResetDelay == 60      \* X-RateLimit-Reset default: time.time() + 60
Forbidden == 403

VARIABLES
    keywords,        \* argument: the list of keywords
    min_stars,       \* argument
    min_forks,       \* argument
    numPages,        \* the server: number of result pages of each keyword
    repo_data,       \* the returned dict: keyword -> list of RepoData
    pc,              \* "for", "while", "break", "returned"
    ki,              \* position of the current keyword in keywords (0: none yet)
    all_repo_data_for_keyword,
    next_page_url,
    retries,
    reqCount,        \* requests issued for the current keyword
    n403,            \* 403 responses received for the current keyword
    nFail,           \* request failures of the current keyword
    fetched,         \* keyword -> pages fetched successfully, in order
    abandoned,       \* keywords skipped after MAX_RETRIES
    requested,       \* keywords for which a request has been issued
    retry_log,       \* the waits of the current keyword's retry warnings (line 109)
    last             \* the latest loop iteration: what was requested and what came of it

vars == <<keywords, min_stars, min_forks, numPages, repo_data, pc, ki,
          all_repo_data_for_keyword, next_page_url, retries, reqCount, n403,
          nFail, fetched, abandoned, requested, retry_log, last>>

KeywordNames == 1..NumKeywords

Max(a, b) == IF a >= b THEN a ELSE b

RECURSIVE Pow2(_)
Pow2(n) == IF n = 0 THEN 1 ELSE 2 * Pow2(n - 1)

\* ------------------------------------------------------------ the server
\* The items of page p of keyword kw: PerPage repositories whose counters
\* range over 0..2, in different combinations from page to page.
ServerItem(kw, p, i) ==
    [html_url |-> <<kw, p, i>>,
     stargazers_count |-> (kw + p + i) % 3,
     forks_count |-> (kw + 2 * p + 2 * i) % 3]

ServerItems(kw, p) == [i \in 1..PerPage |-> ServerItem(kw, p, i)]

\* The Link header of page p of n, as GitHub sends it: a list of
\* <url>; rel="..." values.  A single page carries no Link header (<<>>).
LinkHeader(p, n) ==
    (IF p > 1 THEN <<[url |-> p - 1, rel |-> "prev"]>> ELSE <<>>)
    \o (IF p < n THEN <<[url |-> p + 1, rel |-> "next"],
                        [url |-> n, rel |-> "last"]>> ELSE <<>>)
    \o (IF p > 1 THEN <<[url |-> 1, rel |-> "first"]>> ELSE <<>>)

\* What requests.get can give: an exception, or a response with a status.
StatusCodes == {200, Forbidden, 404, 500}
Outcomes ==
    {[raised |-> TRUE, status |-> 0]}
    \cup {[raised |-> FALSE, status |-> s] : s \in StatusCodes}

\* response.raise_for_status()
RaisesForStatus(status) == status >= 400 /\ status < 600

\* Readings of time.time() and values of the X-RateLimit-Reset header
\* (<<>>: the header is missing, <<t>>: it advertises time t).
Clock == {100, 140}
ResetHeaders == {<<>>, <<90>>, <<180>>}

\* The thresholds a caller passes: the default 0 and a filtering value.
Thresholds == 0..1

\* ------------------------------------------------------------- the code
\* a loop that takes the keywords from the end of the list
KeywordFromEnd == keywords[Len(keywords) + 1 - ki]

\* line 54
Keyword == keywords[ki]

\* a filter that compares strictly
PassesFilterStrict(item) ==
    item.stargazers_count > min_stars /\ item.forks_count > min_forks

\* line 81
PassesFilter(item) ==
    item.stargazers_count >= min_stars /\ item.forks_count >= min_forks

\* lines 79-90
RepoDataOf(item) ==
    [html_url |-> item.html_url, stars |-> item.stargazers_count,
     forks |-> item.forks_count]

RECURSIVE FilterItems(_)
FilterItems(items) ==
    IF items = <<>> THEN <<>>
    ELSE (IF PassesFilter(Head(items)) THEN <<RepoDataOf(Head(items))>> ELSE <<>>)
         \o FilterItems(Tail(items))

\* lines 97-101
NextLinks(link_header) ==
    LET sel == SelectSeq(link_header, LAMBDA link : link.rel = "next")
    IN [j \in 1..Len(sel) |-> sel[j].url]

\* a parser that follows the first link of the header, whatever its rel
NextPageUrlAnyRel(link_header) ==
    IF link_header /= <<>> THEN link_header[1].url ELSE NoUrl

\* lines 95-104
NextPageUrl(link_header) ==
    IF link_header /= <<>>
    THEN (IF NextLinks(link_header) /= <<>> THEN NextLinks(link_header)[1] ELSE NoUrl)
    ELSE NoUrl

\* line 69
ResetTime(header, now) == IF header = <<>> THEN now + DefaultResetDelay ELSE header[1]

\* a wait until the advertised reset time, without the floor
RateLimitWaitNoFloor(header, now) == ResetTime(header, now) - now

\* line 70
RateLimitWait(header, now) == Max(ResetTime(header, now) - now, MinWait)

\* a backoff that grows linearly
BackoffWaitLinear(r) == BASE_BACKOFF_TIME * (r + 1)

\* line 108
BackoffWait(r) == BASE_BACKOFF_TIME * Pow2(r)

\* a retry ceiling of two
MayRetryTwice(r) == r < 2

\* a retry ceiling that admits one retry more
MayRetryInclusive(r) == r <= MAX_RETRIES

\* line 107
MayRetry(r) == r < MAX_RETRIES

NoEvent == [kind |-> "none", url |-> NoUrl, wait |-> 0, now |-> 0, reset |-> <<>>]

Event(kind, url, wait, now, reset) ==
    [kind |-> kind, url |-> url, wait |-> wait, now |-> now, reset |-> reset]

\* The keywords argument: n pairwise distinct keywords, here in descending
\* order, so that a keyword's name differs from its position in the list.
KeywordList(n) == [i \in 1..n |-> n + 1 - i]

Init ==
    /\ keywords = KeywordList(NumKeywords)
    /\ min_stars \in Thresholds
    /\ min_forks \in Thresholds
    /\ numPages \in [KeywordNames -> 1..MaxPages]
    /\ repo_data = <<>>
    /\ pc = "for"
    /\ ki = 0
    /\ all_repo_data_for_keyword = <<>>
    /\ next_page_url = NoUrl
    /\ retries = 0
    /\ reqCount = 0
    /\ n403 = 0
    /\ nFail = 0
    /\ fetched = [k \in KeywordNames |-> <<>>]
    /\ abandoned = {}
    /\ requested = {}
    /\ retry_log = <<>>
    /\ last = NoEvent

\* a retry counter set up once, before the for loop
StartKeywordRetriesKept(r) == r

\* line 59
StartKeywordRetries(r) == 0

\* lines 54-59: the for loop takes the next keyword

StartKeyword ==
    /\ pc = "for"
    /\ ki < Len(keywords)
    /\ ki' = ki + 1
    /\ all_repo_data_for_keyword' = <<>>
    /\ next_page_url' = GITHUB_API_BASE_URL
    /\ retries' = StartKeywordRetries(retries)
    /\ pc' = "while"
    /\ reqCount' = 0
    /\ n403' = 0
    /\ nFail' = 0
    /\ retry_log' = <<>>
    /\ last' = NoEvent
    /\ UNCHANGED <<keywords, min_stars, min_forks, numPages, repo_data, fetched, abandoned, requested>>

\* a 403 handler that moves on to the following page
UrlAfter403Advance(url) == url + 1

\* a 403 handler that spends the retry budget
RetriesAfter403Counted(r) == IF r < MAX_RETRIES THEN r + 1 ELSE r

\* lines 61-73: the request is answered 403; sleep, then continue: the
\* loop's variables are as they were
UrlAfter403(url) == url

RetriesAfter403(r) == r

RateLimited ==
    /\ pc = "while"
    /\ next_page_url /= NoUrl
    /\ n403 < Max403
    /\ \E status \in StatusCodes, now \in Clock, header \in ResetHeaders :
        /\ status = Forbidden
        /\ last' = Event("403", next_page_url, RateLimitWait(header, now), now, header)
    /\ next_page_url' = UrlAfter403(next_page_url)
    /\ retries' = RetriesAfter403(retries)
    /\ reqCount' = reqCount + 1
    /\ n403' = n403 + 1
    /\ requested' = requested \cup {Keyword}
    /\ UNCHANGED <<keywords, min_stars, min_forks, numPages, repo_data, pc, ki,
                   all_repo_data_for_keyword, nFail, fetched, abandoned, retry_log>>

\* a page put in front of the pages collected before it
ExtendInFront(list, more) == more \o list

\* line 92
Extend(list, more) == list \o more

\* a retry counter that starts afresh after every fetched page
RetriesAfterSuccessReset(r) == 0

\* lines 75-104: a fetched page leaves the retry counter alone
RetriesAfterSuccess(r) == r

\* lines 61-104: the page is fetched, filtered and appended; follow the next link
PageFetched ==
    /\ pc = "while"
    /\ next_page_url /= NoUrl
    /\ \E status \in StatusCodes :
        /\ status /= Forbidden
        /\ ~RaisesForStatus(status)
    /\ all_repo_data_for_keyword' =
           Extend(all_repo_data_for_keyword, FilterItems(ServerItems(Keyword, next_page_url)))
    /\ next_page_url' = NextPageUrl(LinkHeader(next_page_url, numPages[Keyword]))
    /\ reqCount' = reqCount + 1
    /\ fetched' = [fetched EXCEPT ![Keyword] = Append(@, next_page_url)]
    /\ last' = Event("ok", next_page_url, 0, 0, <<>>)
    /\ requested' = requested \cup {Keyword}
    /\ retries' = RetriesAfterSuccess(retries)
    /\ UNCHANGED <<keywords, min_stars, min_forks, numPages, repo_data, pc, ki,
                   n403, nFail, abandoned, retry_log>>

\* requests.get raised, or raise_for_status rejected the status
Failed(outcome) ==
    \/ outcome.raised
    \/ outcome.status /= Forbidden /\ RaisesForStatus(outcome.status)

\* a retry that goes on with the following page
UrlAfterRetrySkip(url) == url + 1

\* lines 106-111: the except branch leaves next_page_url alone
UrlAfterRetry(url) == url

\* lines 106-111: back off and retry
RequestFailedRetry ==
    /\ pc = "while"
    /\ next_page_url /= NoUrl
    /\ \E outcome \in Outcomes : Failed(outcome)
    /\ MayRetry(retries)
    /\ last' = Event("retry", next_page_url, BackoffWait(retries), 0, <<>>)
    /\ retry_log' = Append(retry_log, BackoffWait(retries))
    /\ retries' = retries + 1
    /\ next_page_url' = UrlAfterRetry(next_page_url)
    /\ reqCount' = reqCount + 1
    /\ nFail' = nFail + 1
    /\ requested' = requested \cup {Keyword}
    /\ UNCHANGED <<keywords, min_stars, min_forks, numPages, repo_data, pc, ki,
                   all_repo_data_for_keyword, n403, fetched, abandoned>>

\* lines 112-114: max retries reached, leave the while loop
RequestFailedAbandon ==
    /\ pc = "while"
    /\ next_page_url /= NoUrl
    /\ \E outcome \in Outcomes : Failed(outcome)
    /\ ~MayRetry(retries)
    /\ pc' = "break"
    /\ last' = Event("abandon", next_page_url, 0, 0, <<>>)
    /\ reqCount' = reqCount + 1
    /\ nFail' = nFail + 1
    /\ abandoned' = abandoned \cup {Keyword}
    /\ requested' = requested \cup {Keyword}
    /\ UNCHANGED <<keywords, min_stars, min_forks, numPages, repo_data, ki,
                   all_repo_data_for_keyword, next_page_url, retries, n403, fetched,
                   retry_log>>

\* an abandoned keyword recorded with an empty list, as line 120 would
StoredListLost(collected) == IF pc = "break" THEN <<>> ELSE collected

\* line 116
StoredList(collected) == collected

\* an abandonment that ends the run
PcAfterStoreAbort == IF pc = "break" THEN "returned" ELSE "for"

\* lines 54, 116: after the assignment the for loop goes on
PcAfterStore == "for"

\* line 116: the while loop is over; record the keyword's list

StoreKeyword ==
    /\ \/ pc = "while" /\ next_page_url = NoUrl
       \/ pc = "break"
    /\ repo_data' = [k \in DOMAIN repo_data \cup {Keyword} |->
                        IF k = Keyword THEN StoredList(all_repo_data_for_keyword)
                        ELSE repo_data[k]]
    /\ pc' = PcAfterStore
    /\ UNCHANGED <<keywords, min_stars, min_forks, numPages, ki,
                   all_repo_data_for_keyword, next_page_url, retries, reqCount,
                   n403, nFail, fetched, abandoned, requested, retry_log, last>>

\* line 123
Return ==
    /\ pc = "for"
    /\ ki = Len(keywords)
    /\ pc' = "returned"
    /\ UNCHANGED <<keywords, min_stars, min_forks, numPages, repo_data, ki,
                   all_repo_data_for_keyword, next_page_url, retries, reqCount,
                   n403, nFail, fetched, abandoned, requested, retry_log, last>>

Next ==
    \/ StartKeyword
    \/ RateLimited
    \/ PageFetched
    \/ RequestFailedRetry
    \/ RequestFailedAbandon
    \/ StoreKeyword
    \/ Return

Spec == Init /\ [][Next]_vars

\* A call with the default thresholds: they do not bear on the control flow.
DefaultInit == Init /\ min_stars = 0 /\ min_forks = 0

\* The function is sequential code: every request is answered or raises and
\* every sleep ends, so the next step of the loop is always taken.
FairSpec == DefaultInit /\ [][Next]_vars /\ WF_vars(Next)

\* ---------------------------------------------------------------- claims
\* a list holds the record made of a server item
HasRecord(list, item) ==
    \E j \in 1..Len(list) :
        /\ list[j].html_url = item.html_url
        /\ list[j].stars = item.stargazers_count
        /\ list[j].forks = item.forks_count

MeetsThresholds(item) ==
    item.stargazers_count >= min_stars /\ item.forks_count >= min_forks

\* the records expected of one page, and of a list of pages in order
ExpectedOfPage(kw, p) ==
    LET kept == SelectSeq(ServerItems(kw, p), MeetsThresholds)
    IN [j \in 1..Len(kept) |->
           [html_url |-> kept[j].html_url, stars |-> kept[j].stargazers_count,
            forks |-> kept[j].forks_count]]

RECURSIVE ExpectedOfPages(_, _)
ExpectedOfPages(kw, pages) ==
    IF pages = <<>> THEN <<>>
    ELSE ExpectedOfPage(kw, Head(pages)) \o ExpectedOfPages(kw, Tail(pages))

PagesInOrder(n) == [p \in 1..n |-> p]

\* a request of the current keyword is issued in this step
Requests == reqCount' = reqCount + 1

\* C1: every record of the result meets both thresholds, every item of a
\* fetched page that meets both thresholds is in the result, and under the
\* default thresholds (0, 0) no item of a fetched page is dropped.
C1_FilterExact ==
    \A k \in DOMAIN repo_data :
        /\ \A j \in 1..Len(repo_data[k]) :
              repo_data[k][j].stars >= min_stars /\ repo_data[k][j].forks >= min_forks
        /\ \A n \in 1..Len(fetched[k]) : \A i \in 1..PerPage :
              LET item == ServerItem(k, fetched[k][n], i)
              IN /\ MeetsThresholds(item) => HasRecord(repo_data[k], item)
                 /\ (min_stars = 0 /\ min_forks = 0) => HasRecord(repo_data[k], item)

\* a returned result in which a threshold dropped some items of a keyword's
\* fetched pages and kept others
C1_Witness ==
    /\ pc = "returned"
    /\ min_stars = 1
    /\ \E k \in DOMAIN repo_data :
          /\ repo_data[k] /= <<>>
          /\ Len(repo_data[k]) < PerPage * Len(fetched[k])

\* the current keyword's last response carried no next link
LastPageProcessed ==
    /\ ki > 0
    /\ last.kind = "ok"
    /\ \A j \in 1..Len(LinkHeader(last.url, numPages[Keyword])) :
          LinkHeader(last.url, numPages[Keyword])[j].rel /= "next"

\* C2: a keyword with N pages that meets no 403 and no failure is finished
\* after exactly N requests, and once a response without a next link has
\* been processed no further request is issued for the keyword.
C2_ExactlyNRequests ==
    /\ [](ki > 0 /\ n403 = 0 /\ nFail = 0 =>
            /\ reqCount <= numPages[Keyword]
            /\ (pc /= "while" \/ next_page_url = NoUrl) => reqCount = numPages[Keyword])
    /\ [][LastPageProcessed => ~Requests]_vars

\* a keyword of MaxPages pages finished without a 403 or a failure
C2_Witness ==
    /\ pc = "for"
    /\ ki > 0
    /\ n403 = 0
    /\ nFail = 0
    /\ numPages[keywords[ki]] = MaxPages
    /\ reqCount = MaxPages

\* C3: the list stored for a keyword that was not abandoned is the
\* concatenation, in page order, of the filtered items of all its pages,
\* each page fetched exactly once, whatever 403 responses and retried
\* failures came in between.
C3_ConcatenationInPageOrder ==
    \A k \in DOMAIN repo_data \ abandoned :
        /\ fetched[k] = PagesInOrder(numPages[k])
        /\ repo_data[k] = ExpectedOfPages(k, PagesInOrder(numPages[k]))

\* a keyword of several pages stored in full after 403 responses and retries
C3_Witness ==
    /\ pc = "for"
    /\ ki > 0
    /\ keywords[ki] \in DOMAIN repo_data \ abandoned
    /\ numPages[keywords[ki]] >= 2
    /\ n403 >= 1
    /\ nFail >= 2
    /\ Len(repo_data[keywords[ki]]) >= 2

\* C4: a request answered 403 leaves the page target and the collected items
\* as they were, and the request that follows a 403 is for the same page.
C4_SamePageAfter403 ==
    /\ [][Requests /\ last'.kind = "403" =>
            /\ next_page_url' = next_page_url
            /\ last'.url = next_page_url
            /\ all_repo_data_for_keyword' = all_repo_data_for_keyword
            /\ fetched' = fetched]_vars
    /\ [][Requests /\ last.kind = "403" => last'.url = last.url]_vars

\* the second page answered 403 twice in a row
C4_Witness ==
    /\ last.kind = "403"
    /\ last.url = 2
    /\ n403 = 2
    /\ nFail = 0
    /\ reqCount = 3

\* C5: a 403 response never abandons the keyword and never changes the
\* retry counter, however many there are: the counter counts the request
\* failures alone, and a keyword is abandoned by its failure number
\* MAX_RETRIES + 1 alone.
C5_Unbounded403 ==
    /\ [][Requests /\ last'.kind = "403" =>
            /\ retries' = retries
            /\ abandoned' = abandoned
            /\ pc' = "while"]_vars
    /\ [](ki > 0 =>
            /\ retries = (IF nFail < MAX_RETRIES THEN nFail ELSE MAX_RETRIES)
            /\ (Keyword \in abandoned <=> nFail = MAX_RETRIES + 1))

\* with the retry budget used up, two 403 responses in a row and the
\* keyword still going
C5_Witness ==
    /\ pc = "while"
    /\ retries = MAX_RETRIES
    /\ last.kind = "403"
    /\ n403 = Max403
    /\ reqCount = MAX_RETRIES + Max403
    /\ keywords[ki] \notin abandoned

\* C6: the wait after a 403 response is max(reset - now, 30) seconds for the
\* advertised reset time, and never less than 30 seconds, also when the
\* reset time is in the past or none is advertised.
C6_RateLimitWaitFloor ==
    last.kind = "403" =>
        /\ last.wait >= 30
        /\ last.reset /= <<>> =>
              last.wait = (IF last.reset[1] - last.now >= 30
                           THEN last.reset[1] - last.now ELSE 30)

\* a 403 response whose advertised reset time is already past
C6_Witness ==
    /\ last.kind = "403"
    /\ last.reset /= <<>>
    /\ last.reset[1] < last.now
    /\ last.wait = 30

BackoffSchedule == <<5, 10, 20, 40, 80>>

\* C7: the wait before retry k (from 0) of a keyword is 5 * 2^k, that is
\* 5, 10, 20, 40, 80; a keyword has at most MAX_RETRIES retries, and its
\* sixth failure causes no wait and no further request.
C7_BackoffSchedule ==
    /\ [](last.kind = "retry" =>
            /\ nFail \in 1..MAX_RETRIES
            /\ last.wait = BackoffSchedule[nFail])
    /\ [](last.kind = "abandon" => nFail = MAX_RETRIES + 1 /\ last.wait = 0)
    /\ [](nFail <= MAX_RETRIES + 1 /\ retries <= MAX_RETRIES)
    /\ [][last.kind = "abandon" => ~Requests]_vars

\* the sixth failure of a keyword
C7_Witness ==
    /\ last.kind = "abandon"
    /\ nFail = 6
    /\ retries = 5

\* C8: the retry counter is 0 when a keyword's first request is issued, and
\* the first failure of any keyword waits BASE_BACKOFF_TIME, whatever
\* happened to the keywords before it.
C8_RetriesResetPerKeyword ==
    /\ (pc = "while" /\ reqCount = 0) => retries = 0
    /\ (last.kind = "retry" /\ nFail = 1) => last.wait = BASE_BACKOFF_TIME

\* the first failure of the second keyword, after the first was abandoned
C8_Witness ==
    /\ ki = 2
    /\ keywords[1] \in abandoned
    /\ last.kind = "retry"
    /\ nFail = 1
    /\ n403 = 0
    /\ reqCount = 1

\* C9: no request is issued for an abandoned keyword, and its entry in the
\* result is exactly the filtered items of the pages fetched before the
\* abandonment, never discarded or changed afterwards.
C9_PartialResultsKept ==
    /\ [](\A k \in abandoned :
            /\ Len(fetched[k]) < numPages[k]
            /\ fetched[k] = PagesInOrder(Len(fetched[k]))
            /\ k \in DOMAIN repo_data => repo_data[k] = ExpectedOfPages(k, fetched[k]))
    /\ [][Requests => keywords[ki] \notin abandoned]_vars
    /\ [][\A k \in abandoned :
            /\ fetched'[k] = fetched[k]
            /\ k \in DOMAIN repo_data =>
                  k \in DOMAIN repo_data' /\ repo_data'[k] = repo_data[k]]_vars

\* a returned result with the non-empty partial list of an abandoned keyword
C9_Witness ==
    /\ pc = "returned"
    /\ \E k \in abandoned :
          /\ fetched[k] /= <<>>
          /\ repo_data[k] /= <<>>

\* C10: when the function returns, the result has an entry for every input
\* keyword, and every keyword that follows an abandoned one has been
\* requested.
C10_EveryKeywordHasEntry ==
    pc = "returned" =>
        /\ DOMAIN repo_data = {keywords[i] : i \in 1..Len(keywords)}
        /\ \A i, j \in 1..Len(keywords) :
              (i < j /\ keywords[i] \in abandoned) => keywords[j] \in requested

\* a return after the first keyword was abandoned and the last one was
\* fetched through 403 responses and failures
C10_Witness ==
    /\ pc = "returned"
    /\ keywords[1] \in abandoned
    /\ keywords[Len(keywords)] \notin abandoned
    /\ n403 >= 1
    /\ nFail >= 1

\* the while loop of the current keyword is over
LoopOver == ki > 0 /\ (pc /= "while" \/ next_page_url = NoUrl)

\* C11: a keyword that met three request failures (retry ceiling 5 >= 3) is
\* not abandoned, has exactly the three retry warnings with waits 5, 10, 20,
\* and once its pages are fetched its data is complete in the result.
C11_ThreeFailuresThenSuccess ==
    (ki > 0 /\ nFail = 3) =>
        /\ keywords[ki] \notin abandoned
        /\ retry_log = <<5, 10, 20>>
        /\ all_repo_data_for_keyword = ExpectedOfPages(keywords[ki], fetched[keywords[ki]])
        /\ LoopOver =>
              /\ fetched[keywords[ki]] = PagesInOrder(numPages[keywords[ki]])
              /\ pc \in {"for", "returned"} =>
                    repo_data[keywords[ki]] = all_repo_data_for_keyword

\* three failures in a row, then the keyword's only page fetched and stored
C11_Witness ==
    /\ pc = "for"
    /\ ki > 0
    /\ numPages[keywords[ki]] = 1
    /\ nFail = 3
    /\ n403 = 0
    /\ reqCount = 4
    /\ last.kind = "ok"
    /\ Len(repo_data[keywords[ki]]) >= 1

\* C12: the keywords are processed one after another in input order: a
\* keyword starts only when the one before it is stored, every request (and
\* the wait that follows it) belongs to the current keyword, and no keyword
\* after the current one has been requested.
C12_KeywordsInInputOrder ==
    /\ [](requested \subseteq {keywords[i] : i \in 1..ki})
    /\ []({keywords[i] : i \in 1..(ki - 1)} \subseteq DOMAIN repo_data)
    /\ [](last.kind /= "none" => keywords[ki] \in requested)
    /\ [][ki' = ki \/ (ki' = ki + 1 /\ pc = "for")]_vars
    /\ [][Requests => /\ ki' = ki
                      /\ requested' = requested \cup {keywords[ki]}
                      /\ \A j \in (ki + 1)..Len(keywords) : keywords[j] \notin requested']_vars

\* the second keyword in its retries and 403 waits after the first was fetched
C12_Witness ==
    /\ ki = 2
    /\ pc = "while"
    /\ requested = {keywords[1], keywords[2]}
    /\ keywords[1] \in DOMAIN repo_data
    /\ keywords[2] \notin DOMAIN repo_data
    /\ n403 >= 1
    /\ nFail >= 1

\* C13: a request failure that is retried adds no item and leaves the page
\* target as it was, the retry asks for the same page, and so the pages
\* fetched for a keyword are 1, 2, ... without a gap or a repetition.
C13_RetrySamePage ==
    /\ [][Requests /\ last'.kind = "retry" =>
            /\ next_page_url' = next_page_url
            /\ last'.url = next_page_url
            /\ all_repo_data_for_keyword' = all_repo_data_for_keyword
            /\ fetched' = fetched
            /\ repo_data' = repo_data]_vars
    /\ [][Requests /\ last.kind = "retry" => last'.url = last.url]_vars
    /\ [](\A k \in KeywordNames : fetched[k] = PagesInOrder(Len(fetched[k])))

\* the second page fetched after it failed twice
C13_Witness ==
    /\ last.kind = "ok"
    /\ last.url = 2
    /\ nFail = 2
    /\ n403 = 0
    /\ reqCount = 4
    /\ fetched[keywords[ki]] = <<1, 2>>

\* C14: within a keyword the retry counter stays in 0..MAX_RETRIES and never
\* decreases, a fetched page leaves it as it is, and the keyword is abandoned
\* exactly at its sixth request failure, wherever the failures fell.
C14_RetriesNeverReset ==
    /\ [](retries \in 0..MAX_RETRIES)
    /\ [][ki' = ki => retries' >= retries]_vars
    /\ [][Requests /\ last'.kind = "ok" => retries' = retries]_vars
    /\ [](ki > 0 => /\ nFail <= MAX_RETRIES + 1
                    /\ Len(retry_log) = retries
                    /\ (nFail = MAX_RETRIES + 1) = (keywords[ki] \in abandoned))

\* a keyword abandoned on its second page, after its first page was fetched
C14_Witness ==
    /\ last.kind = "abandon"
    /\ last.url = 2
    /\ fetched[keywords[ki]] = <<1>>
    /\ nFail = 6
    /\ retries = 5

\* C15: without 403 responses a keyword of N pages takes at most
\* N + MAX_RETRIES requests, whether it completes or is abandoned; every 403
\* response adds one request.
C15_RequestBound ==
    ki > 0 =>
        /\ reqCount <= numPages[keywords[ki]] + MAX_RETRIES + n403
        /\ n403 = 0 => reqCount <= numPages[keywords[ki]] + 5

\* the bound attained by a keyword abandoned on its last page
C15_Witness ==
    /\ ki > 0
    /\ n403 = 0
    /\ keywords[ki] \in abandoned
    /\ numPages[keywords[ki]] = MaxPages
    /\ reqCount = MaxPages + MAX_RETRIES

\* pages of the current keyword still to fetch
PagesLeft ==
    IF next_page_url = NoUrl THEN 0
    ELSE numPages[keywords[ki]] + 1 - next_page_url

\* more than the steps one keyword can take
KeywordBudget == MaxPages + MAX_RETRIES + Max403 + 5

\* what is left to do: keywords, then pages, failures and 403 responses
Rank ==
    (Len(keywords) - ki) * KeywordBudget
    + (CASE pc = "while" ->
              2 + PagesLeft + (MAX_RETRIES + 1 - nFail) + (Max403 - n403)
         [] pc = "break" -> 1
         [] pc = "for" -> 0
         [] OTHER -> -1)

TypeOK ==
    /\ pc \in {"for", "while", "break", "returned"}
    /\ ki \in 0..NumKeywords
    /\ retries \in 0..MAX_RETRIES
    /\ next_page_url \in 0..MaxPages
====
